---- MODULE Spec2Model ----
(***************************************************************************)
(* Model of the two gym environments of envs/pointmass.py (PointMassEnv)   *)
(* and envs/quad_2d.py (Quad2DEnv): construction, reset, step and the      *)
(* obstacle queries.                                                       *)
(*                                                                         *)
(* Numbers.  The source computes in IEEE floating point.  The model        *)
(* computes in fixed point: every length, velocity, angle, time, mass and  *)
(* force is an integer count of 1/Unit (1e-4) of its SI unit, products are *)
(* rescaled by Unit and rounded down.  The draws of the random generators  *)
(* are taken from finite sets of values on that grid.                      *)
(***************************************************************************)
EXTENDS Integers, Sequences, FiniteSets, TLC

\* Python's None, where a vector or a list is expected.
None == <<>>

\* 1 unit = 1e-4, the finest constant of the source (the tolerance of _is_done).
Unit == 10000

Abs(x) == IF x < 0 THEN -x ELSE x
Min(a, b) == IF a < b THEN a ELSE b
Max(a, b) == IF a > b THEN a ELSE b

\* a * b of two fixed-point numbers.
Mul(a, b) == (a * b) \div Unit

----------------------------------------------------------------------------
(* Class constants.                                                        *)

PM_dt == Unit \div 10
PM_MASS == 1 * Unit
PM_MAX_X == 5 * Unit
PM_MAX_Y == 5 * Unit
PM_MAX_VEL_X == 5 * Unit
PM_MAX_VEL_Y == 5 * Unit
PM_MAX_ACC == 5 * Unit

Q_dt == Unit \div 20
Q_MASS == Unit \div 10
Q_LENGTH == Unit \div 10
\* 1/12 * MASS * LENGTH**2, kept in units of 1/Unit^3 (it is below 1/Unit).
Q_INERTIA == (Q_MASS * Q_LENGTH * Q_LENGTH) \div 12
Q_GRAVITY == (981 * Unit) \div 100
\* numpy.pi on the grid.
pi == 31416
Q_MAX_X == 5 * Unit
Q_MAX_Y == 5 * Unit
Q_MAX_ANG == pi
Q_MAX_VEL_X == 5 * Unit
Q_MAX_VEL_Y == 5 * Unit
Q_MAX_VEL_ANG == 5 * Unit

MAX_X(env) == IF env = "PointMass" THEN PM_MAX_X ELSE Q_MAX_X
MAX_Y(env) == IF env = "PointMass" THEN PM_MAX_Y ELSE Q_MAX_Y
MAX_VEL_X(env) == IF env = "PointMass" THEN PM_MAX_VEL_X ELSE Q_MAX_VEL_X
MAX_VEL_Y(env) == IF env = "PointMass" THEN PM_MAX_VEL_Y ELSE Q_MAX_VEL_Y
dt(env) == IF env = "PointMass" THEN PM_dt ELSE Q_dt

----------------------------------------------------------------------------
(* numpy.sin and numpy.cos, by Bhaskara's rational approximation           *)
(* 16 x (pi - x) / (5 pi^2 - 4 x (pi - x)) on [0, pi], extended by the     *)
(* symmetries of the sine.  The result is a fixed-point number.            *)

Reduce(x) == ((x + pi) % (2 * pi)) - pi

SinHalf(x) ==
    LET p == (x * (pi - x)) \div 100
        den == 5 * ((pi * pi) \div 100) - 4 * p
    IN  Min(Unit, (16 * p) \div (den \div Unit))

sin(x) == LET r == Reduce(x) IN IF r >= 0 THEN SinHalf(r) ELSE -SinHalf(-r)

cos(x) == sin(x + pi \div 2)

----------------------------------------------------------------------------
(* Boundary policy: wrap and bound.                                        *)

RECURSIVE WrapDown(_, _, _)
WrapDown(x, M, diff) == IF x > M THEN WrapDown(x - diff, M, diff) ELSE x

RECURSIVE WrapUp(_, _, _)
WrapUp(x, m, diff) == IF x < m THEN WrapUp(x + diff, m, diff) ELSE x

\* wrap without its first loop.
wrap_up_only(x, m, M) == WrapUp(x, m, M - m)

wrap(x, m, M) == WrapUp(WrapDown(x, M, M - m), m, M - m)

\* bound without its upper limit.
bound_lower_only(x, m, M) == Max(x, m)

bound(x, m, M) == Min(Max(x, m), M)

\* A clip that forgets the upper bound.
clip_lower_only(a, lo, hi) == [i \in DOMAIN a |-> Max(a[i], lo)]

\* numpy.clip(a, a_min, a_max) on a pair.
clip(a, lo, hi) == [i \in DOMAIN a |-> Min(Max(a[i], lo), hi)]

----------------------------------------------------------------------------
(* Dynamics and the integrator.  A vector is a sequence of fixed-point     *)
(* numbers; the augmented state is the state followed by the action.       *)

VAdd(u, v) == [i \in DOMAIN u |-> u[i] + v[i]]
VScale(c, v) == [i \in DOMAIN v |-> Mul(c, v[i])]

\* The two accelerations exchanged between the axes.
dsdt_pm_axes_swapped(s) ==
    LET a1 == s[Len(s) - 1]
        a2 == s[Len(s)]
    IN  <<s[2], (a2 * Unit) \div PM_MASS, s[4], (a1 * Unit) \div PM_MASS, 0, 0>>

dsdt_pm(s) ==
    LET a1 == s[Len(s) - 1]
        a2 == s[Len(s)]
        ddx == (a1 * Unit) \div PM_MASS
        ddy == (a2 * Unit) \div PM_MASS
    IN  <<s[2], ddx, s[4], ddy, 0, 0>>

dsdt_quad(s) ==
    LET a1 == s[Len(s) - 1]
        a2 == s[Len(s)]
        theta == s[5]
        acc == ((a1 + a2) * Unit) \div Q_MASS
        ddx == - Mul(acc, sin(theta))
        ddy == Mul(acc, cos(theta)) - Q_GRAVITY
        ddtheta == (Q_LENGTH * (a1 - a2) * 100) \div (Q_INERTIA \div (Unit * 100))
    IN  <<s[2], ddx, s[4], ddy, s[6], ddtheta, 0, 0>>

dsdt(env, s) == IF env = "PointMass" THEN dsdt_pm(s) ELSE dsdt_quad(s)

\* One classical Runge-Kutta step over [0, h]; the result keeps the first n
\* components (the action is cleaved off).
rk4(env, y0, h, n) ==
    LET h2 == h \div 2
        k1 == dsdt(env, y0)
        k2 == dsdt(env, VAdd(y0, VScale(h2, k1)))
        k3 == dsdt(env, VAdd(y0, VScale(h2, k2)))
        k4 == dsdt(env, VAdd(y0, VScale(h, k3)))
        yout == [i \in DOMAIN y0 |->
                   y0[i] + (Mul(h, k1[i]) + 2 * Mul(h, k2[i])
                            + 2 * Mul(h, k3[i]) + Mul(h, k4[i])) \div 6]
    IN  SubSeq(yout, 1, n)

\* inverse_dynamics with the division by dt left out.
inverse_dynamics_without_dt(st, s_next) ==
    << ((s_next[2] - st[2]) * Unit) \div PM_MASS,
       ((s_next[4] - st[4]) * Unit) \div PM_MASS >>

\* PointMassEnv.inverse_dynamics(s_next) with self.state = st.
inverse_dynamics(st, s_next) ==
    LET ddx == ((s_next[2] - st[2]) * Unit) \div PM_dt
        ddy == ((s_next[4] - st[4]) * Unit) \div PM_dt
        a1 == (ddx * Unit) \div PM_MASS
        a2 == (ddy * Unit) \div PM_MASS
    IN  <<a1, a2>>

----------------------------------------------------------------------------
(* Distances.  numpy.linalg.norm(u - v) compared with a radius r is        *)
(* decided on the squares; the guards keep the squares within TLC's        *)
(* integers and do not change the result.                                  *)

NormLeq(dx, dy, r) ==
    /\ Abs(dx) <= r
    /\ Abs(dy) <= r
    /\ dx * dx + dy * dy <= r * r

NormLess(dx, dy, r) ==
    /\ Abs(dx) < r
    /\ Abs(dy) < r
    /\ dx * dx + dy * dy < r * r

RECURSIVE ISqrtFrom(_, _)
ISqrtFrom(n, g) ==
    LET h == (g + n \div g) \div 2
    IN  IF h >= g THEN g ELSE ISqrtFrom(n, h)

ISqrt(n) == IF n = 0 THEN 0 ELSE ISqrtFrom(n, n)

\* The value of numpy.linalg.norm, to 1e-3.
Norm(dx, dy) ==
    10 * ISqrt((dx \div 10) * (dx \div 10) + (dy \div 10) * (dy \div 10))

\* x ** 2 of a fixed-point number up to 2e5 units.
Square(x) == ((x \div 10) * x) \div (Unit \div 10)

get_coordinates(state) == <<state[1], state[3]>>

----------------------------------------------------------------------------
(* Constructor arguments.  A configuration is the record of the arguments  *)
(* that __init__ stores; the thrust bounds use its defaults.               *)

min_rel_thrust == (3 * Unit) \div 4
max_rel_thrust == (5 * Unit) \div 4
min_thrust == Mul(Mul(min_rel_thrust, Q_MASS), Q_GRAVITY) \div 2
max_thrust == Mul(Mul(max_rel_thrust, Q_MASS), Q_GRAVITY) \div 2

n_obstacles_box(c) == c.n_moving_obstacles_box + c.n_static_obstacles_box
n_obstacles_circle(c) == c.n_moving_obstacles_circle + c.n_static_obstacles_circle
n_obstacles(c) == n_obstacles_box(c) + n_obstacles_circle(c)
\* Every environment resamples, whatever the constructor was given.
random_target_always(c) == TRUE

random_target(c) == c.target = None

----------------------------------------------------------------------------
(* Obstacle field: generation.  rand() is a fixed-point number in [0, 1).  *)
(* D.size, D.centre and D.vel are the draws offered to the size, the       *)
(* centre (a pair) and the velocity (a pair) of a candidate.               *)

d_min == Unit \div 10
d_max == Unit \div 2
r_min == Unit \div 10
r_max == Unit \div 2
dist_min == 2 * Unit
half == Unit \div 2

\* Only the obstacle appended last is compared with the candidate centre.
far_from_last(obs, x, y) ==
    Len(obs) > 0 =>
      ~ NormLess(obs[Len(obs)].x - x, obs[Len(obs)].y - y, dist_min)

\* No earlier obstacle is closer than dist_min to the candidate centre.
far_from_all(obs, x, y) ==
    \A i \in 1..Len(obs) : ~ NormLess(obs[i].x - x, obs[i].y - y, dist_min)

box_candidates(moving, D) ==
    { [x |-> Mul(2 * Q_MAX_X - d, c[1] - half),
       y |-> Mul(2 * Q_MAX_Y - d, c[2] - half),
       vx |-> IF moving THEN Mul(Q_MAX_VEL_X, v[1] - half) ELSE 0,
       vy |-> IF moving THEN Mul(Q_MAX_VEL_Y, v[2] - half) ELSE 0,
       d |-> d] :
         d \in { d_min + Mul(u, d_max - d_min) : u \in D.size },
         c \in D.centre,
         v \in IF moving THEN D.vel ELSE {<<half, half>>} }

circle_candidates(moving, D) ==
    { [x |-> Mul(2 * Q_MAX_X - r, c[1] - half),
       y |-> Mul(2 * Q_MAX_Y - r, c[2] - half),
       vx |-> IF moving THEN Mul(Q_MAX_VEL_X, v[1] - half) ELSE 0,
       vy |-> IF moving THEN Mul(Q_MAX_VEL_Y, v[2] - half) ELSE 0,
       r |-> r] :
         r \in { r_min + Mul(u, r_max - r_min) : u \in D.size },
         c \in D.centre,
         v \in IF moving THEN D.vel ELSE {<<half, half>>} }

\* The candidates the while loop in charge of obstacle number
\* Len(obs) + 1 can draw.
candidates(c, obs, D) ==
    LET counter == Len(obs)
    IN  IF counter < c.n_moving_obstacles_box
          THEN box_candidates(TRUE, D)
        ELSE IF counter < c.n_moving_obstacles_box + c.n_static_obstacles_box
          THEN box_candidates(FALSE, D)
        ELSE IF counter < c.n_moving_obstacles_box + c.n_static_obstacles_box
                            + c.n_moving_obstacles_circle
          THEN circle_candidates(TRUE, D)
        ELSE circle_candidates(FALSE, D)

\* The obstacles the four while loops can append as number counter + 1.
accepted(c, obs, D) ==
    { o \in candidates(c, obs, D) : far_from_all(obs, o.x, o.y) }

RECURSIVE generate_from(_, _, _)
generate_from(c, obs, D) ==
    IF Len(obs) >= c.n_moving_obstacles_box + c.n_static_obstacles_box
                     + c.n_moving_obstacles_circle + c.n_static_obstacles_circle
      THEN {obs}
      ELSE UNION { generate_from(c, Append(obs, o), D) : o \in accepted(c, obs, D) }

\* The layouts _generate_obstacles can leave in self.obstacles.
generate_obstacles(c, D) == generate_from(c, <<>>, D)

----------------------------------------------------------------------------
(* Sampler: the validity checks of reset and __init__.                     *)

is_box(o) == "d" \in DOMAIN o
is_circle(o) == "r" \in DOMAIN o

\* p lies in the box o enlarged by margin on every side (borders included).
in_box(p, o, margin) ==
    /\ p[1] >= o.x - o.d \div 2 - margin
    /\ p[1] <= o.x + o.d \div 2 + margin
    /\ p[2] >= o.y - o.d \div 2 - margin
    /\ p[2] <= o.y + o.d \div 2 + margin

\* p lies in the circle o enlarged by margin (border included).
in_circle(p, o, margin) == NormLeq(o.x - p[1], o.y - p[2], o.r + margin)

sample_target(c, D) ==
    { <<Mul(2 * MAX_X(c.env), u[1] - half), Mul(2 * MAX_Y(c.env), u[2] - half)>> :
        u \in D.target }

check_target(c, st, obs, tgt) ==
    LET obstacle_distance == Unit \div 5
        p == get_coordinates(st)
    IN  /\ st # None => ~ NormLeq(p[1] - tgt[1], p[2] - tgt[2], c.epsilon)
        /\ c.env = "Quad2D" =>
             /\ c.n_static_obstacles_box > 0 =>
                  \A i \in (c.n_moving_obstacles_box + 1)..n_obstacles_box(c) :
                      ~ in_box(tgt, obs[i], obstacle_distance)
             /\ c.n_static_obstacles_circle > 0 =>
                  \A i \in (n_obstacles_box(c) + c.n_moving_obstacles_circle + 1)
                             ..n_obstacles(c) :
                      ~ in_circle(tgt, obs[i], obstacle_distance)

check_initial_pos(c, st, obs, tgt) ==
    LET obstacle_distance == 1 * Unit
        p == get_coordinates(st)
    IN  c.env = "Quad2D" =>
          /\ tgt # None => ~ NormLeq(p[1] - tgt[1], p[2] - tgt[2], c.epsilon)
          /\ n_obstacles(c) > 0 =>
               \A i \in 1..n_obstacles(c) :
                   /\ is_box(obs[i]) => ~ in_box(p, obs[i], obstacle_distance)
                   /\ is_circle(obs[i]) => ~ in_circle(p, obs[i], obstacle_distance)

\* The agent can brake before the bound with the maximum acceleration.
check_initial_vel(st) ==
    LET max_acc == ((max_thrust * 2 - Mul(Q_MASS, Q_GRAVITY)) * Unit) \div Q_MASS
        brake(v) == (Mul(half, Square(v)) * Unit) \div max_acc
    IN  ~ \/ (st[2] > 0 /\ st[1] + brake(st[2]) > Q_MAX_X)
          \/ (st[2] < 0 /\ st[1] - brake(st[2]) < - Q_MAX_X)
          \/ (st[4] > 0 /\ st[3] + brake(st[4]) > Q_MAX_Y)
          \/ (st[4] < 0 /\ st[3] - brake(st[4]) < - Q_MAX_Y)

check_initial_orientation(st) == ~ (st[5] > pi \div 2 \/ st[5] < - (pi \div 2))

\* self.state[[1, 3, 4, 5]] = 0
hovering(st) == <<st[1], 0, st[3], 0, 0, 0>>

\* The braking check applied in test mode only, like the orientation check.
sample_state_vel_in_test_only(c, obs, tgt, D) ==
    IF c.env = "PointMass"
      THEN { st \in D.pm_state : check_initial_pos(c, st, obs, tgt) }
      ELSE { st \in { IF c.test THEN hovering(x) ELSE x : x \in D.quad_state } :
               /\ check_initial_pos(c, st, obs, tgt)
               /\ c.test => check_initial_vel(st)
               /\ c.test => check_initial_orientation(st) }

\* The states the rejection loop of reset can end with.
sample_state(c, obs, tgt, D) ==
    IF c.env = "PointMass"
      THEN { st \in D.pm_state : check_initial_pos(c, st, obs, tgt) }
      ELSE { st \in { IF c.test THEN hovering(x) ELSE x : x \in D.quad_state } :
               /\ check_initial_pos(c, st, obs, tgt)
               /\ check_initial_vel(st)
               /\ c.test => check_initial_orientation(st) }

----------------------------------------------------------------------------
(* Episode state machine: observation, reward, termination.                *)

get_ob(c, st, tgt) ==
    IF c.env = "PointMass"
      THEN <<st[1], st[2], st[3], st[4], tgt[1], tgt[2]>>
    ELSE IF c.theta_as_sine_cosine
      THEN <<st[1], st[2], st[3], st[4], sin(st[5]), cos(st[5]), st[6], tgt[1], tgt[2]>>
    ELSE <<st[1], st[2], st[3], st[4], st[5], st[6], tgt[1], tgt[2]>>

target_within_epsilon(c, st, tgt) ==
    NormLeq(st[1] - tgt[1], st[3] - tgt[2], c.epsilon)

get_distance_to_target(st, tgt) == Norm(st[1] - tgt[1], st[3] - tgt[2])

\* The bonus granted only where reaching the target ends the episode.
get_reward_bonus_on_termination(c, st, tgt) ==
    LET distance == get_distance_to_target(st, tgt)
        reward == IF c.env = "PointMass" THEN - distance ELSE - Square(distance)
    IN  IF target_within_epsilon(c, st, tgt) /\ c.bonus_reward
           /\ c.reset_target_reached
          THEN reward + 1000 * Unit
          ELSE reward

get_reward(c, st, tgt) ==
    LET distance == get_distance_to_target(st, tgt)
        reward == IF c.env = "PointMass" THEN - distance ELSE - Square(distance)
    IN  IF target_within_epsilon(c, st, tgt) /\ c.bonus_reward
          THEN reward + 1000 * Unit
          ELSE reward

tol == 1

at_bound(x, M) == x <= - M + tol \/ x >= M - tol

\* Only the two positions are compared with their bounds, in every mode.
out_of_bounds_positions_only(c, st) ==
    at_bound(st[1], MAX_X(c.env)) \/ at_bound(st[3], MAX_Y(c.env))

out_of_bounds(c, st) ==
    IF c.env = "PointMass"
      THEN \/ at_bound(st[1], PM_MAX_X) \/ at_bound(st[2], PM_MAX_VEL_X)
           \/ at_bound(st[3], PM_MAX_Y) \/ at_bound(st[4], PM_MAX_VEL_Y)
    ELSE IF ~ c.test
      THEN \/ at_bound(st[1], Q_MAX_X) \/ at_bound(st[2], Q_MAX_VEL_X)
           \/ at_bound(st[3], Q_MAX_Y) \/ at_bound(st[4], Q_MAX_VEL_Y)
           \/ at_bound(st[6], Q_MAX_VEL_ANG)
    ELSE \/ at_bound(st[1], Q_MAX_X) \/ at_bound(st[3], Q_MAX_Y)

\* Only the boxes are tested.
collides_with_box(c, st, obs) ==
    /\ c.env = "Quad2D"
    /\ n_obstacles(c) > 0
    /\ \E i \in 1..n_obstacles(c) :
          is_box(obs[i]) /\ in_box(get_coordinates(st), obs[i], 0)

collides(c, st, obs) ==
    /\ c.env = "Quad2D"
    /\ n_obstacles(c) > 0
    /\ \E i \in 1..n_obstacles(c) :
          \/ is_box(obs[i]) /\ in_box(get_coordinates(st), obs[i], 0)
          \/ is_circle(obs[i]) /\ in_circle(get_coordinates(st), obs[i], 0)

\* The horizon compared with the counter as it stands after the increment.
horizon_after_increment(c, ts) == ts + 1 = c.max_steps - 1

\* The horizon compared one step late.
horizon_late(c, ts) == ts = c.max_steps

horizon(c, ts) == ts = c.max_steps - 1

\* _is_done with the collision test moved before the target test.
is_done_collision_first(c, st, tgt, obs, ts, tr) ==
    IF collides(c, st, obs)
      THEN [done |-> TRUE, target_reached |-> "-1"]
    ELSE IF c.reset_target_reached /\ target_within_epsilon(c, st, tgt)
      THEN [done |-> TRUE, target_reached |-> "True"]
    ELSE IF c.reset_out_of_bounds /\ out_of_bounds(c, st)
      THEN [done |-> TRUE, target_reached |-> tr]
    ELSE IF horizon(c, ts)
      THEN [done |-> TRUE, target_reached |-> tr]
    ELSE [done |-> FALSE, target_reached |-> tr]

\* _is_done: the value returned and the value it leaves in target_reached.
is_done(c, st, tgt, obs, ts, tr) ==
    IF c.reset_target_reached /\ target_within_epsilon(c, st, tgt)
      THEN [done |-> TRUE, target_reached |-> "True"]
    ELSE IF c.reset_out_of_bounds /\ out_of_bounds(c, st)
      THEN [done |-> TRUE, target_reached |-> tr]
    ELSE IF collides(c, st, obs)
      THEN [done |-> TRUE, target_reached |-> "-1"]
    ELSE IF horizon(c, ts)
      THEN [done |-> TRUE, target_reached |-> tr]
    ELSE [done |-> FALSE, target_reached |-> tr]

----------------------------------------------------------------------------
(* Obstacle field: one step of a moving obstacle.  h is the half size of   *)
(* the shape: d / 2 of a box, r of a circle.                               *)

hits_wall(possible_new, M, h) == possible_new <= - M + h \/ possible_new >= M - h

\* The position advanced with the velocity the step began with, the
\* velocity reflected afterwards.
move_then_reflect(o, h) ==
    LET possible_new_x == o.x + Mul(o.vx, Q_dt)
        possible_new_y == o.y + Mul(o.vy, Q_dt)
    IN  [o EXCEPT !.vx = IF hits_wall(possible_new_x, Q_MAX_X, h) THEN - o.vx ELSE o.vx,
                  !.vy = IF hits_wall(possible_new_y, Q_MAX_Y, h) THEN - o.vy ELSE o.vy,
                  !.x = possible_new_x, !.y = possible_new_y]

move_obstacle(o, h) ==
    LET possible_new_x == o.x + Mul(o.vx, Q_dt)
        possible_new_y == o.y + Mul(o.vy, Q_dt)
        vx == IF hits_wall(possible_new_x, Q_MAX_X, h) THEN - o.vx ELSE o.vx
        vy == IF hits_wall(possible_new_y, Q_MAX_Y, h) THEN - o.vy ELSE o.vy
    IN  [o EXCEPT !.vx = vx, !.vy = vy,
                  !.x = o.x + Mul(vx, Q_dt), !.y = o.y + Mul(vy, Q_dt)]

half_size(o) == IF is_box(o) THEN o.d \div 2 ELSE o.r

\* The two loops of step: the moving boxes, then the moving circles.
move_obstacles(c, obs) ==
    [i \in DOMAIN obs |->
       IF \/ (c.n_moving_obstacles_box > 0 /\ i <= c.n_moving_obstacles_box)
          \/ (c.n_moving_obstacles_circle > 0 /\ i > n_obstacles_box(c)
                /\ i <= n_obstacles_box(c) + c.n_moving_obstacles_circle)
         THEN move_obstacle(obs[i], half_size(obs[i]))
         ELSE obs[i]]

----------------------------------------------------------------------------
(* Obstacle field: multi-step prediction.                                  *)

\* A prediction that reflects on the position held, not the prospective one.
predict_reflect_late(p, o) ==
    LET h == half_size(o)
        vx == IF hits_wall(p.x, Q_MAX_X, h) THEN - p.vx ELSE p.vx
        vy == IF hits_wall(p.y, Q_MAX_Y, h) THEN - p.vy ELSE p.vy
    IN  IF is_box(o)
          THEN [x |-> p.x + Mul(vx, Q_dt), y |-> p.y + Mul(vy, Q_dt),
                vx |-> vx, vy |-> vy, d |-> o.d]
          ELSE [x |-> p.x + Mul(vx, Q_dt), y |-> p.y + Mul(vy, Q_dt),
                vx |-> vx, vy |-> vy, r |-> o.r]

\* The entry appended to predictions[i] for obstacle o, whose entry in
\* predictions[i - 1] is p.
predict_obstacle(p, o) ==
    LET h == half_size(o)
        possible_x == p.x + Mul(p.vx, Q_dt)
        possible_y == p.y + Mul(p.vy, Q_dt)
        vx == IF hits_wall(possible_x, Q_MAX_X, h) THEN - p.vx ELSE p.vx
        vy == IF hits_wall(possible_y, Q_MAX_Y, h) THEN - p.vy ELSE p.vy
    IN  IF is_box(o)
          THEN [x |-> p.x + Mul(vx, Q_dt), y |-> p.y + Mul(vy, Q_dt),
                vx |-> vx, vy |-> vy, d |-> o.d]
          ELSE [x |-> p.x + Mul(vx, Q_dt), y |-> p.y + Mul(vy, Q_dt),
                vx |-> vx, vy |-> vy, r |-> o.r]

\* predictions[i]: the boxes, then the circles.
RECURSIVE predictions_at(_, _, _)
predictions_at(c, obs, i) ==
    IF i = 0
      THEN [j \in 1..n_obstacles(c) |->
              IF j <= n_obstacles_box(c)
                THEN [x |-> obs[j].x, y |-> obs[j].y, vx |-> obs[j].vx,
                      vy |-> obs[j].vy, d |-> obs[j].d]
                ELSE [x |-> obs[j].x, y |-> obs[j].y, vx |-> obs[j].vx,
                      vy |-> obs[j].vy, r |-> obs[j].r]]
      ELSE LET previous == predictions_at(c, obs, i - 1)
           IN  [j \in 1..n_obstacles(c) |-> predict_obstacle(previous[j], obs[j])]

\* predict_obstacles(horizon=H): None, or the dictionary with keys 0..H-1.
predict_obstacles(c, obs, H) ==
    IF n_obstacles(c) = 0
      THEN None
      ELSE [i \in 0..(H - 1) |-> predictions_at(c, obs, i)]

\* Every entry of predictions[0] is the live record itself.
aliased_all(c) == 1..n_obstacles(c)

\* The indices j whose entry predictions[0][j] is the object self.obstacles[j]
\* itself: none, every entry is a dictionary built by the call.
aliased_entries(c) == {}

\* What a dictionary returned earlier shows once step has written the live
\* records obs: an entry that is a live record shows its new fields.
seen_after_step(result, aliased, obs) ==
    IF aliased = {}
      THEN result
      ELSE [result EXCEPT ![0] = [j \in DOMAIN result[0] |->
                                    IF j \in aliased THEN obs[j] ELSE result[0][j]]]

----------------------------------------------------------------------------
(* Random sources.  A generator is its seed and the number of draws made   *)
(* from it; the k-th value of a generator is a fixed function of both,     *)
(* read from a tape of values.                                             *)

draw(tape, g, k) == tape[((g.seed + g.pos + k) % Len(tape)) + 1]

----------------------------------------------------------------------------
(* The environment.                                                        *)

VARIABLES
    cfg,             \* the constructor arguments and the class (cfg.env)
    state,           \* self.state: None before the first reset
    prev_state,      \* self.prev_state
    target,          \* self.target
    timestep,        \* self.timestep
    target_reached,  \* self.target_reached: "False", "True", "-1"; "unset" before reset
    obstacles,       \* self.obstacles: empty when no obstacle is configured
    last,            \* the most recent call: its argument, what it returned or raised
    terminated,      \* history: a step has returned done since the last reset
    np_random,       \* self.np_random: the generator reset(seed) replaces
    state_space_np_random,  \* self.state_space.np_random: the generator of sample()
    forecast,        \* history: the last predict_obstacles call of this episode
    first_ob,        \* history: per seed, what the first reset(seed) returned
    loop             \* the rejection loop __init__ or reset is in, if any

vars == <<cfg, state, prev_state, target, timestep, target_reached, obstacles,
          last, terminated, np_random, state_space_np_random, forecast,
          first_ob, loop>>

\* __init__.  E holds the seeds the operating system's entropy can choose.
Construct(C, D, E) ==
    /\ cfg \in C
    /\ state = None
    /\ prev_state = None
    /\ obstacles \in IF cfg.env = "Quad2D" /\ n_obstacles(cfg) > 0
                       THEN generate_obstacles(cfg, D) ELSE {<<>>}
    /\ target \in IF cfg.target # None
                    THEN {cfg.target}
                    ELSE { t \in sample_target(cfg, D) :
                             check_target(cfg, None, obstacles, t) }
    /\ timestep = 0
    /\ target_reached = "unset"
    /\ last = [op |-> "init"]
    /\ terminated = FALSE
    /\ np_random \in { [seed |-> e, pos |-> 0] : e \in E }
    /\ state_space_np_random \in
         IF cfg.env = "Quad2D"
           THEN { [seed |-> cfg.seed, pos |-> 0] }
           ELSE { [seed |-> e, pos |-> 0] : e \in E }
    /\ forecast = [called |-> FALSE]
    /\ first_ob = [s \in E |-> None]
    /\ loop = [at |-> "idle"]

\* A reset that leaves the outcome of the finished episode in place.
ResetBody_keeps_outcome(D) ==
    /\ obstacles' \in IF cfg.env = "Quad2D" /\ n_obstacles(cfg) > 0
                        THEN generate_obstacles(cfg, D) ELSE {obstacles}
    /\ state' \in IF ~ random_target(cfg)
                    THEN {cfg.initial_state}
                    ELSE sample_state(cfg, obstacles', target, D)
    /\ timestep' = 0
    /\ target' \in IF random_target(cfg)
                     THEN { t \in sample_target(cfg, D) :
                              check_target(cfg, state', obstacles', t) }
                     ELSE {target}
    /\ target_reached' = IF target_reached = "unset" THEN "False"
                                                     ELSE target_reached
    /\ terminated' = FALSE
    /\ forecast' = [called |-> FALSE]
    /\ UNCHANGED <<cfg, prev_state, loop>>

\* The fields reset writes, for the draws D of its generators.
ResetBody(D) ==
    /\ obstacles' \in IF cfg.env = "Quad2D" /\ n_obstacles(cfg) > 0
                        THEN generate_obstacles(cfg, D) ELSE {obstacles}
    /\ state' \in IF ~ random_target(cfg)
                    THEN {cfg.initial_state}
                    ELSE sample_state(cfg, obstacles', target, D)
    /\ timestep' = 0
    /\ target' \in IF random_target(cfg)
                     THEN { t \in sample_target(cfg, D) :
                              check_target(cfg, state', obstacles', t) }
                     ELSE {target}
    /\ target_reached' = "False"
    /\ terminated' = FALSE
    /\ forecast' = [called |-> FALSE]
    /\ UNCHANGED <<cfg, prev_state, loop>>

\* reset(), returning the first observation: no generator is replaced, the
\* draws are whatever the generators hold next.
Reset(D) ==
    /\ ResetBody(D)
    /\ last' = [op |-> "reset", ob |-> get_ob(cfg, state', target')]
    /\ UNCHANGED <<np_random, state_space_np_random, first_ob>>

\* The layout _generate_obstacles builds from a generator freshly seeded
\* with seed: a function of the seed and the configuration.
seeded_obstacles(c, seed, D) ==
    CHOOSE layout \in generate_obstacles(c, D) : TRUE

\* reset(seed=seed): super().reset replaces self.np_random by a generator
\* seeded with seed; the state space keeps its own generator.  T holds the
\* tapes of the generators: states for sample(), pairs of rand() for targets.
\* n_states and n_targets count the draws the two loops reject.
ResetSeed(seed, D, T) ==
    LET obs == IF cfg.env = "Quad2D" /\ n_obstacles(cfg) > 0
                 THEN seeded_obstacles(cfg, seed, D) ELSE obstacles
        states == IF cfg.env = "PointMass" THEN T.pm_state ELSE T.quad_state
        sampled(k) == draw(states, state_space_np_random, k)
        found(k) == sample_state(cfg, obs, target,
                                 [pm_state |-> {sampled(k)},
                                  quad_state |-> {sampled(k)}])
        n_states == CHOOSE k \in 0..(Len(states) - 1) :
                        found(k) # {} /\ \A j \in 0..(k - 1) : found(j) = {}
        st == CHOOSE x \in found(n_states) : TRUE
        seeded == [seed |-> seed, pos |-> 0]
        candidate(k) == { t \in sample_target(cfg, [target |-> {draw(T.target, seeded, k)}]) :
                            check_target(cfg, st, obs, t) }
        n_targets == CHOOSE k \in 0..(Len(T.target) - 1) :
                         candidate(k) # {} /\ \A j \in 0..(k - 1) : candidate(j) = {}
    IN  /\ \E k \in 0..(Len(states) - 1) : found(k) # {}
        /\ \E k \in 0..(Len(T.target) - 1) : candidate(k) # {}
        /\ ResetBody([D EXCEPT !.pm_state = {st}, !.quad_state = {sampled(n_states)},
                               !.target = {draw(T.target, seeded, n_targets)}])
        /\ obstacles' = obs
        /\ np_random' = [seed |-> seed, pos |-> n_targets + 1]
        /\ state_space_np_random' =
             [state_space_np_random EXCEPT !.pos = @ + n_states + 1]
        /\ last' = [op |-> "reset", seed |-> seed,
                    ob |-> get_ob(cfg, state', target')]
        /\ first_ob' = IF first_ob[seed] = None
                         THEN [first_ob EXCEPT ![seed] = last'.ob]
                         ELSE first_ob

\* The assertion placed after the timestep is counted.
step_assert_fails_late(ts) ==
    [timestep |-> ts + 1, raised |-> "AssertionError"]

\* The fields and the outcome of a step whose assertion on self.state fails.
step_assert_fails(ts) ==
    [timestep |-> ts, raised |-> "AssertionError"]

\* The caller's array once step has returned: numpy.clip builds a new array
\* and the argument is never written.
action_after_step(c, a) == a

\* The action is clipped, appended to the state and integrated over dt.
integrate(c, st, a) ==
    IF c.env = "PointMass"
      THEN rk4(c.env, st \o clip(a, - PM_MAX_ACC, PM_MAX_ACC), PM_dt, 4)
      ELSE rk4(c.env, st \o clip(a, min_thrust, max_thrust), Q_dt, 6)

\* The boundary policy applied to the integrated state.
apply_bounds(c, ns) ==
    IF c.env = "PointMass"
      THEN << bound(ns[1], - PM_MAX_X, PM_MAX_X),
              bound(ns[2], - PM_MAX_VEL_X, PM_MAX_VEL_X),
              bound(ns[3], - PM_MAX_Y, PM_MAX_Y),
              bound(ns[4], - PM_MAX_VEL_Y, PM_MAX_VEL_Y) >>
      ELSE << bound(ns[1], - Q_MAX_X, Q_MAX_X),
              bound(ns[2], - Q_MAX_VEL_X, Q_MAX_VEL_X),
              bound(ns[3], - Q_MAX_Y, Q_MAX_Y),
              bound(ns[4], - Q_MAX_VEL_Y, Q_MAX_VEL_Y),
              wrap(ns[5], - Q_MAX_ANG, Q_MAX_ANG),
              bound(ns[6], - Q_MAX_VEL_ANG, Q_MAX_VEL_ANG) >>

next_state(c, st, a) == apply_bounds(c, integrate(c, st, a))

\* step(a) on an environment that has been reset.
Step(a) ==
    /\ state # None
    /\ LET ns == next_state(cfg, state, a)
           obs == IF cfg.env = "Quad2D" THEN move_obstacles(cfg, obstacles)
                                         ELSE obstacles
           d == is_done(cfg, ns, target, obs, timestep, target_reached)
       IN  /\ prev_state' = state
           /\ state' = ns
           /\ obstacles' = obs
           /\ target_reached' = d.target_reached
           /\ timestep' = timestep + 1
           /\ last' = [op |-> "step", a |-> a,
                       caller_a |-> action_after_step(cfg, a),
                       ob |-> get_ob(cfg, ns, target),
                       reward |-> get_reward(cfg, ns, target),
                       done |-> d.done, target_reached |-> d.target_reached]
           /\ terminated' = (terminated \/ d.done)
    /\ forecast' = IF forecast.called
                     THEN [forecast EXCEPT
                             !.age = @ + 1,
                             !.result = seen_after_step(@, forecast.aliased,
                                                        obstacles')]
                     ELSE forecast
    /\ UNCHANGED <<cfg, target, np_random, state_space_np_random, first_ob,
                   loop>>

\* step(a) before any reset: the assertion aborts the call.
StepUninitialized(a) ==
    /\ state = None
    /\ LET r == step_assert_fails(timestep)
       IN  /\ timestep' = r.timestep
           /\ last' = [op |-> "step", a |-> a, raised |-> r.raised]
    /\ UNCHANGED <<cfg, state, prev_state, target, target_reached, obstacles,
                   terminated, np_random, state_space_np_random, forecast,
                   first_ob, loop>>

\* predict_obstacles(horizon=H) of the quadrotor environment.
PredictObstacles(H) ==
    /\ cfg.env = "Quad2D"
    /\ forecast' = [called |-> TRUE, horizon |-> H, age |-> 0,
                    aliased |-> aliased_entries(cfg),
                    result |-> predict_obstacles(cfg, obstacles, H)]
    /\ last' = [op |-> "predict_obstacles", horizon |-> H]
    /\ UNCHANGED <<cfg, state, prev_state, target, timestep, target_reached,
                   obstacles, terminated, np_random, state_space_np_random,
                   first_ob, loop>>

\* inverse_dynamics(s_next) of the point mass, on an environment that has
\* been reset.
InverseDynamics(s_next) ==
    /\ cfg.env = "PointMass"
    /\ state # None
    /\ last' = [op |-> "inverse_dynamics", s_next |-> s_next,
                result |-> inverse_dynamics(state, s_next)]
    /\ UNCHANGED <<cfg, state, prev_state, target, timestep, target_reached,
                   obstacles, terminated, np_random, state_space_np_random,
                   forecast, first_ob, loop>>

----------------------------------------------------------------------------
(* The rejection loops of __init__ and reset, one iteration at a time.     *)
(* loop.op is the call that is running, loop.at the loop it is in.         *)

\* The first loop a call enters, and the loop that follows each loop.
first_loop(c, op) ==
    IF c.env = "Quad2D" /\ n_obstacles(c) > 0 THEN "obstacles"
    ELSE IF op = "init" THEN "target"
    ELSE "state"

loop_after(op, at) ==
    IF at = "obstacles" THEN (IF op = "init" THEN "target" ELSE "state")
    ELSE IF at = "state" THEN "target"
    ELSE "idle"

\* reset() is called: super().reset, then _generate_obstacles empties the
\* list or the state loop begins.
ResetCalled ==
    /\ loop.at = "idle"
    /\ loop' = [op |-> "reset", at |-> first_loop(cfg, "reset")]
    /\ obstacles' = IF first_loop(cfg, "reset") = "obstacles" THEN <<>>
                                                              ELSE obstacles
    /\ last' = [op |-> "reset", returned |-> FALSE]
    /\ UNCHANGED <<cfg, state, prev_state, target, timestep, target_reached,
                   terminated, np_random, state_space_np_random, forecast,
                   first_ob>>

\* One iteration of a while loop of _generate_obstacles: a candidate is
\* drawn and appended if no earlier obstacle is closer than dist_min.
GenerateObstacle(D) ==
    /\ loop.at = "obstacles"
    /\ \E o \in candidates(cfg, obstacles, D) :
          IF far_from_all(obstacles, o.x, o.y)
            THEN /\ obstacles' = Append(obstacles, o)
                 /\ loop' = IF Len(obstacles') = n_obstacles(cfg)
                              THEN [loop EXCEPT !.at = loop_after(loop.op, "obstacles")]
                              ELSE loop
            ELSE UNCHANGED <<obstacles, loop>>
    /\ UNCHANGED <<cfg, state, prev_state, target, timestep, target_reached,
                   last, terminated, np_random, state_space_np_random,
                   forecast, first_ob>>

\* One iteration of the state loop of reset: the sample is assigned to
\* self.state and the loop ends if it is valid.
SampleState(D) ==
    /\ loop.at = "state"
    /\ \E x \in IF cfg.env = "PointMass" THEN D.pm_state ELSE D.quad_state :
          LET st == IF cfg.env = "Quad2D" /\ cfg.test THEN hovering(x) ELSE x
          IN  /\ state' = st
              /\ IF st \in sample_state(cfg, obstacles, target, D)
                    THEN /\ loop' = [loop EXCEPT !.at = loop_after(loop.op, "state")]
                         /\ timestep' = 0
                    ELSE UNCHANGED <<loop, timestep>>
    /\ UNCHANGED <<cfg, prev_state, target, target_reached, obstacles, last,
                   terminated, np_random, state_space_np_random, forecast,
                   first_ob>>

\* One iteration of the target loop of __init__ or reset: the sample is
\* assigned to self.target; if it is valid the call runs to its end.
SampleTarget(D) ==
    /\ loop.at = "target"
    /\ \E t \in sample_target(cfg, D) :
          /\ target' = t
          /\ IF check_target(cfg, state, obstacles, t)
                THEN /\ loop' = [at |-> "idle"]
                     /\ IF loop.op = "reset"
                           THEN /\ target_reached' = "False"
                                /\ terminated' = FALSE
                                /\ forecast' = [called |-> FALSE]
                                /\ last' = [op |-> "reset", returned |-> TRUE,
                                            ob |-> get_ob(cfg, state, t)]
                           ELSE UNCHANGED <<target_reached, terminated,
                                            forecast, last>>
                ELSE UNCHANGED <<loop, target_reached, terminated, forecast,
                                 last>>
    /\ UNCHANGED <<cfg, state, prev_state, timestep, obstacles, np_random,
                   state_space_np_random, first_ob>>

----------------------------------------------------------------------------
(* The bounded instances that are explored.                                *)

\* max_steps ranges over 1..MaxSteps.
MaxSteps == 2
\* No more than MaxTimestep step calls are made between two resets.
MaxTimestep == 3

Flags ==
    [reset_target_reached : BOOLEAN, reset_out_of_bounds : BOOLEAN,
     max_steps : 1..MaxSteps]

NoObstacles ==
    [n_moving_obstacles_box |-> 0, n_static_obstacles_box |-> 0,
     n_moving_obstacles_circle |-> 0, n_static_obstacles_circle |-> 0]

Counts(mb, sb, mc, sc) ==
    [n_moving_obstacles_box |-> mb, n_static_obstacles_box |-> sb,
     n_moving_obstacles_circle |-> mc, n_static_obstacles_circle |-> sc]

Config(env, f, n, tgt, init, test) ==
    [env |-> env, target |-> tgt, initial_state |-> init,
     max_steps |-> f.max_steps, epsilon |-> Unit \div 5,
     reset_target_reached |-> f.reset_target_reached,
     reset_out_of_bounds |-> f.reset_out_of_bounds,
     bonus_reward |-> FALSE, test |-> test, theta_as_sine_cosine |-> TRUE,
     seed |-> 0,
     n_moving_obstacles_box |-> n.n_moving_obstacles_box,
     n_static_obstacles_box |-> n.n_static_obstacles_box,
     n_moving_obstacles_circle |-> n.n_moving_obstacles_circle,
     n_static_obstacles_circle |-> n.n_static_obstacles_circle]

\* Point mass: random target, or the fixed target (0.6, 0) with a fixed start.
PMConfigs ==
    { Config("PointMass", f, NoObstacles, None, None, FALSE) : f \in Flags }
    \cup
    { Config("PointMass", f, NoObstacles, <<6000, 0>>, init, FALSE) :
        f \in Flags, init \in { <<0, 50000, 0, 0>> } }

\* Quadrotor: random target, or the fixed target (0.3, 0) with a fixed start.
QuadConfigs ==
    { Config("Quad2D", f, n, None, None, test) :
        f \in Flags, test \in BOOLEAN,
        n \in { NoObstacles, Counts(1, 0, 0, 0), Counts(0, 1, 0, 1) } }
    \cup
    { Config("Quad2D", f, n, <<3000, 0>>, init, FALSE) :
        f \in Flags,
        n \in { NoObstacles, Counts(0, 1, 0, 0) },
        init \in { <<0, 40000, 0, 0, 0, 0>>, <<0, 0, 0, 0, pi, 0>> } }

Configs == PMConfigs \cup QuadConfigs

\* The draws offered to the samplers: states of the state space, and values
\* of rand() for the target, the obstacle sizes, centres and velocities.
Draws ==
    [pm_state |-> { <<0, 50000, 0, 0>>, <<0, 0, 0, 0>>, <<48000, 40000, 0, -50000>> },
     quad_state |-> { <<0, 40000, 0, 0, 0, 0>>,
                      <<0, 0, 0, 0, 31000, 49000>>,
                      <<0, 0, 10000, 0, 31000, 8320>>,
                      <<49999, 40000, 0, 0, 40000, 0>> },
     target |-> { <<5000, 5000>>, <<5300, 5000>>, <<5600, 5000>> },
     size |-> { 9000 },
     centre |-> { <<5000, 5000>>, <<9000, 5000>> },
     vel |-> { <<9000, 5000>>, <<1000, 5000>> }]

\* The actions offered to step; some lie outside the action bounds.
ActionsOf(env) ==
    IF env = "PointMass"
      THEN { <<0, 0>>, <<80000, -30000>> }
      ELSE { <<4905, 4905>>, <<10000, 0>> }

Init == Construct(Configs, Draws, {0})

Next ==
    \/ Reset(Draws)
    \/ \E a \in ActionsOf(cfg.env) : timestep < MaxTimestep /\ Step(a)
    \/ \E a \in ActionsOf(cfg.env) : StepUninitialized(a)

Spec == Init /\ [][Next]_vars

----------------------------------------------------------------------------
(* The obstacle field of the quadrotor: generation, motion, prediction.    *)

\* No more than MaxObsSteps step calls are made between two resets.
MaxObsSteps == 3
\* predict_obstacles is called with horizons 1..MaxHorizon.
MaxHorizon == 3

\* One obstacle of each kind, or none; the body hovers at the origin.
ObsConfigs ==
    { Config("Quad2D",
             [reset_target_reached |-> FALSE, reset_out_of_bounds |-> FALSE,
              max_steps |-> MaxSteps],
             n, <<3000, 0>>, <<0, 0, 0, 0, 0, 0>>, FALSE) :
        n \in { NoObstacles, Counts(1, 1, 1, 1) } }

\* Centres next to the right and the lower wall, at the origin, 1.47 above
\* the origin and far from all of these; a velocity that takes a box at the
\* right wall exactly onto the bound in one step, and a box at the lower
\* wall beyond the bound in two.
ObsDraws ==
    [pm_state |-> {}, quad_state |-> {}, target |-> {},
     size |-> { 2500 },
     centre |-> { <<9900, 5000>>, <<5000, 5000>>, <<5000, 6500>>,
                  <<5000, 100>>, <<2500, 9000>> },
     vel |-> { <<8920, 3000>> }]

ObsInit == Construct(ObsConfigs, ObsDraws, {0})

ObsNext ==
    \/ Reset(ObsDraws)
    \/ timestep < MaxObsSteps /\ Step(<<4905, 4905>>)
    \/ \E H \in 1..MaxHorizon : PredictObstacles(H)

SpecObs == ObsInit /\ [][ObsNext]_vars

----------------------------------------------------------------------------
(* Seeded episodes.                                                        *)

\* reset is called with the seeds 0..MaxSeed.
MaxSeed == 1
\* No more than MaxDraws states are drawn from the state space.
MaxDraws == 4

Seeds == 0..MaxSeed

SeedFlags ==
    [reset_target_reached |-> FALSE, reset_out_of_bounds |-> FALSE,
     max_steps |-> MaxSteps]

\* Random targets: the point mass, and the quadrotor with and without a
\* static box.
SeedConfigs ==
    { Config("PointMass", SeedFlags, NoObstacles, None, None, FALSE) }
    \cup
    { Config("Quad2D", SeedFlags, n, None, None, test) :
        test \in BOOLEAN, n \in { NoObstacles, Counts(0, 1, 0, 0) } }

\* The values the generators hold, in the order they are drawn.
Tapes ==
    [pm_state |-> << <<0, 50000, 0, 0>>, <<0, 0, 0, 0>>, <<48000, 40000, 0, -50000>> >>,
     quad_state |-> << <<0, 40000, 0, 0, 0, 0>>, <<0, 0, 0, 0, 31000, 49000>>,
                       <<0, 0, 10000, 0, 31000, 8320>>,
                       <<49999, 40000, 0, 0, 40000, 0>> >>,
     target |-> << <<5000, 5000>>, <<5300, 5000>>, <<5600, 5000>> >>]

SeedInit == Construct(SeedConfigs, Draws, Seeds)

SeedNext ==
    \/ \E seed \in Seeds :
          state_space_np_random.pos < MaxDraws /\ ResetSeed(seed, Draws, Tapes)
    \/ \E a \in ActionsOf(cfg.env) : timestep < MaxTimestep /\ Step(a)

SpecSeed == SeedInit /\ [][SeedNext]_vars

----------------------------------------------------------------------------
(* The point mass pushed along x towards a fixed target.                   *)

\* max_steps of the scenario: the default of the constructor.
ScenarioMaxSteps == 100

\* Target (3, 0), start at rest at the origin, termination on reaching the
\* target only.
ScenarioConfigs ==
    { Config("PointMass",
             [reset_target_reached |-> TRUE, reset_out_of_bounds |-> FALSE,
              max_steps |-> ScenarioMaxSteps],
             NoObstacles, <<3 * Unit, 0>>, <<0, 0, 0, 0>>, FALSE) }

ScenarioInit == Construct(ScenarioConfigs, Draws, {0})

\* reset, and step with the constant action (5, 0).
ScenarioNext ==
    \/ Reset(Draws)
    \/ timestep < cfg.max_steps /\ Step(<<5 * Unit, 0>>)

SpecScenario == ScenarioInit /\ [][ScenarioNext]_vars

----------------------------------------------------------------------------
(* Environments constructed with a fixed target and a fixed start.         *)

FixedFlags ==
    [reset_target_reached : BOOLEAN, reset_out_of_bounds : BOOLEAN,
     max_steps : {MaxSteps}]

\* The point mass with target (0.6, 0), the quadrotor with target
\* (0.1, 0.1) and no obstacle or a static box and a static circle; a start
\* next to the target, one away from it and, for the quadrotor, one that
\* spins at the bound of dtheta; with and without the bonus.
FixedConfigs ==
    { [Config("PointMass", f, NoObstacles, <<6000, 0>>, init, FALSE)
         EXCEPT !.bonus_reward = b] :
        f \in FixedFlags, b \in BOOLEAN,
        init \in { <<0, 0, 0, 0>>, <<5000, 0, 0, 0>> } }
    \cup
    { [Config("Quad2D", f, n, <<1000, 1000>>, init, FALSE)
         EXCEPT !.bonus_reward = b] :
        f \in FixedFlags, b \in BOOLEAN,
        n \in { NoObstacles, Counts(0, 1, 0, 1) },
        init \in { <<0, 0, 0, 0, 0, 0>>, <<20000, 0, 0, 0, 0, 0>>,
                   <<0, 0, 0, 0, 0, 50000>> } }

\* Obstacle centres at the origin and at (3.9, 0).
FixedDraws ==
    [pm_state |-> {}, quad_state |-> {}, target |-> {},
     size |-> { 2500 },
     centre |-> { <<5000, 5000>>, <<9000, 5000>> },
     vel |-> {}]

FixedInit == Construct(FixedConfigs, FixedDraws, {0})

FixedNext ==
    \/ Reset(FixedDraws)
    \/ \E a \in ActionsOf(cfg.env) : timestep < MaxTimestep /\ Step(a)

SpecFixed == FixedInit /\ [][FixedNext]_vars

----------------------------------------------------------------------------
(* Inverse dynamics of the point mass.                                     *)

\* The actions whose successor states are handed to inverse_dynamics: inside
\* the action bounds, on them and outside; multiples of 1e-3, for which
\* dt * a is a number of the grid.
InverseActions ==
    { <<0, 0>>, <<12340, -30000>>, <<50000, -50000>>, <<-24680, 170>>,
      <<80000, -30000>> }

InverseInit == Construct(PMConfigs, Draws, {0})

InverseNext ==
    \/ Reset(Draws)
    \/ \E a \in ActionsOf("PointMass") : timestep < MaxTimestep /\ Step(a)
    \/ \E a \in InverseActions : InverseDynamics(next_state(cfg, state, a))

SpecInverse == InverseInit /\ [][InverseNext]_vars

----------------------------------------------------------------------------
(* The rejection loops.                                                    *)

\* No more than MaxLoopObstacles obstacles are configured.
MaxLoopObstacles == 2

\* Random targets; the quadrotor with no obstacle, one or two static boxes.
LoopConfigs ==
    { Config("PointMass", f, NoObstacles, None, None, FALSE) : f \in FixedFlags }
    \cup
    { Config("Quad2D", f, n, None, None, FALSE) :
        f \in FixedFlags,
        n \in { NoObstacles } \cup
              { Counts(0, k, 0, 0) : k \in 1..MaxLoopObstacles } }

\* Centres at the origin, 1.2 and 2.5 to its right: the outer two are far
\* enough from each other, the middle one is too close to both.  States and
\* targets at the origin, 3 to its left and 3 above it.
LoopDraws ==
    [pm_state |-> { <<0, 0, 0, 0>>, <<-30000, 0, 0, 0>> },
     quad_state |-> { <<0, 0, 0, 0, 0, 0>>, <<-30000, 0, 0, 0, 0, 0>>,
                      <<0, 0, 30000, 0, 0, 0>> },
     target |-> { <<5000, 5000>>, <<2000, 5000>>, <<5000, 8000>> },
     size |-> { 2500 },
     centre |-> { <<5000, 5000>>, <<6224, 5000>>, <<7551, 5000>> },
     vel |-> { <<5000, 5000>> }]

\* __init__ has stored its arguments and enters its first loop.
LoopInit ==
    /\ cfg \in LoopConfigs
    /\ state = None
    /\ prev_state = None
    /\ obstacles = <<>>
    /\ target = None
    /\ timestep = 0
    /\ target_reached = "unset"
    /\ last = [op |-> "init"]
    /\ terminated = FALSE
    /\ np_random = [seed |-> 0, pos |-> 0]
    /\ state_space_np_random = [seed |-> 0, pos |-> 0]
    /\ forecast = [called |-> FALSE]
    /\ first_ob = [s \in {0} |-> None]
    /\ loop = [op |-> "init", at |-> first_loop(cfg, "init")]

LoopNext ==
    \/ ResetCalled
    \/ GenerateObstacle(LoopDraws)
    \/ SampleState(LoopDraws)
    \/ SampleTarget(LoopDraws)

\* How far the running call has come: the loop it is in and, among the
\* loops of _generate_obstacles, the number of obstacles placed.
position == <<loop, Len(obstacles)>>

\* No draw is denied for ever: numpy draws every candidate with a positive
\* probability, at every iteration anew.
LoopFairness_none == TRUE

LoopFairness ==
    WF_vars(loop.at # "idle" /\ LoopNext /\ position' # position)

SpecLoop == LoopInit /\ [][LoopNext]_vars /\ LoopFairness

----------------------------------------------------------------------------
(* Properties of the episode state machine, checked under Spec.            *)

stepped == last.op = "step" /\ "done" \in DOMAIN last

\* The step calls of an environment that has been reset.
step_taken == state # None /\ timestep' = timestep + 1

\* C1: after every step call, every clamped component of the state lies
\* within its bound, inclusive: x, dx, y, dy and, for the quadrotor, dtheta.
C1_ClampedWithinBounds ==
    stepped =>
      /\ Abs(state[1]) <= MAX_X(cfg.env)
      /\ Abs(state[2]) <= MAX_VEL_X(cfg.env)
      /\ Abs(state[3]) <= MAX_Y(cfg.env)
      /\ Abs(state[4]) <= MAX_VEL_Y(cfg.env)
      /\ cfg.env = "Quad2D" => Abs(state[6]) <= Q_MAX_VEL_ANG

\* A step whose integrated position and velocity both left the domain.
C1_Witness ==
    /\ stepped
    /\ integrate(cfg, prev_state, last.a)[1] > MAX_X(cfg.env)
    /\ integrate(cfg, prev_state, last.a)[4] < - MAX_VEL_Y(cfg.env)
    /\ state[1] = MAX_X(cfg.env)
    /\ state[4] = - MAX_VEL_Y(cfg.env)

\* C2 as stated: after every step of the quadrotor, theta lies in the
\* half-open interval [-pi, pi).
C2_ThetaHalfOpen ==
    (stepped /\ cfg.env = "Quad2D") => (- pi <= state[5] /\ state[5] < pi)

\* C2 as amended: after every step of the quadrotor, theta lies in the closed
\* interval [-pi, pi] and differs from the integrated angle by a whole
\* number of turns.
C2_ThetaClosed ==
    (stepped /\ cfg.env = "Quad2D") =>
      /\ - pi <= state[5]
      /\ state[5] <= pi
      /\ (integrate(cfg, prev_state, last.a)[5] - state[5]) % (2 * pi) = 0

\* A step whose integrated angle lay beyond pi and was wrapped.
C2_Witness ==
    /\ stepped
    /\ cfg.env = "Quad2D"
    /\ integrate(cfg, prev_state, last.a)[5] > pi
    /\ state[5] < 0

\* C3: with reset_target_reached enabled, a step that leaves the body both
\* within epsilon of the target and inside an obstacle returns done with
\* target_reached = True, not -1.
C3_SuccessBeforeCollision ==
    (/\ stepped
     /\ cfg.reset_target_reached
     /\ target_within_epsilon(cfg, state, target)
     /\ collides(cfg, state, obstacles))
      => (last.done /\ last.target_reached = "True" /\ target_reached = "True")

\* A step that ends within epsilon of the target and inside an obstacle.
C3_Witness ==
    /\ stepped
    /\ cfg.reset_target_reached
    /\ target_within_epsilon(cfg, state, target)
    /\ collides(cfg, state, obstacles)

\* C4: once a step has returned done, every later step before the next
\* reset returns done as well.
C4_StaysTerminated == (stepped /\ terminated) => last.done

\* C5: a step on an environment that was never reset raises and changes no
\* field: no state, counter, obstacle, target or target_reached.
C5_StepBeforeResetAborts ==
    [][(state = None /\ last' # last /\ last'.op = "step") =>
         /\ "raised" \in DOMAIN last'
         /\ "done" \notin DOMAIN last'
         /\ UNCHANGED <<cfg, state, prev_state, target, timestep, target_reached,
                        obstacles>>]_vars

\* A step was attempted before any reset.
C5_Witness == state = None /\ last.op = "step" /\ "raised" \in DOMAIN last

\* C6: at least one of the first max_steps step calls after a reset returns
\* done.
C6_HardHorizon == (state # None /\ timestep >= cfg.max_steps) => terminated

\* max_steps > 1 steps were made with no other cause of termination enabled.
C6_Witness ==
    /\ state # None
    /\ cfg.max_steps > 1
    /\ timestep = cfg.max_steps
    /\ ~ cfg.reset_target_reached
    /\ ~ cfg.reset_out_of_bounds
    /\ n_obstacles(cfg) = 0
    /\ terminated

\* The action bounds of the two classes.
low(c) == IF c.env = "PointMass" THEN - PM_MAX_ACC ELSE min_thrust
high(c) == IF c.env = "PointMass" THEN PM_MAX_ACC ELSE max_thrust

\* clamp(a, min, max), component by component.
clamped(c, a) ==
    [i \in DOMAIN a |-> IF a[i] < low(c) THEN low(c)
                         ELSE IF a[i] > high(c) THEN high(c) ELSE a[i]]

\* C15: a step with any action returns, raises nothing, leaves the
\* caller's action as it was, and produces the successor state, reward,
\* done flag and target_reached of a step with the clamped action.
C15_ActionClamped ==
    [][step_taken =>
         LET expected == next_state(cfg, state, clamped(cfg, last'.a))
             d == is_done(cfg, expected, target, obstacles', timestep,
                          target_reached)
         IN  /\ "raised" \notin DOMAIN last'
             /\ last'.caller_a = last'.a
             /\ state' = expected
             /\ last'.ob = get_ob(cfg, expected, target)
             /\ last'.reward = get_reward(cfg, expected, target)
             /\ last'.done = d.done
             /\ last'.target_reached = d.target_reached
             /\ target_reached' = d.target_reached]_vars

\* A step of the quadrotor with one thrust above and one below the bounds.
C15_Witness ==
    /\ stepped
    /\ cfg.env = "Quad2D"
    /\ last.a[1] > max_thrust
    /\ last.a[2] < min_thrust
    /\ state = next_state(cfg, prev_state, <<max_thrust, min_thrust>>)

----------------------------------------------------------------------------
(* Determinism, checked under SpecSeed.                                    *)

\* C7: a reset with a seed returns the observation the first reset with
\* that seed returned, whatever was drawn before it.
C7_SameSeedSameRun ==
    (last.op = "reset" /\ "seed" \in DOMAIN last) => last.ob = first_ob[last.seed]

----------------------------------------------------------------------------
(* Properties of the obstacle field, checked under SpecObs.                *)

generated == last.op \in {"init", "reset"} /\ n_obstacles(cfg) > 0

is_moving(c, i) ==
    \/ i <= c.n_moving_obstacles_box
    \/ i > n_obstacles_box(c) /\ i <= n_obstacles_box(c) + c.n_moving_obstacles_circle

\* C8: right after _generate_obstacles, at construction or reset, the list
\* holds the configured number of obstacles in the order moving boxes,
\* static boxes, moving circles, static circles, and the centres of any two
\* of them are at least 2.0 apart.
C8_GeneratedApart ==
    generated =>
      /\ Len(obstacles) = cfg.n_moving_obstacles_box + cfg.n_static_obstacles_box
                          + cfg.n_moving_obstacles_circle
                          + cfg.n_static_obstacles_circle
      /\ \A i \in 1..Len(obstacles) :
            /\ is_box(obstacles[i]) <=> i <= n_obstacles_box(cfg)
            /\ is_circle(obstacles[i]) <=> i > n_obstacles_box(cfg)
            /\ ~ is_moving(cfg, i) => (obstacles[i].vx = 0 /\ obstacles[i].vy = 0)
      /\ \A i, j \in 1..Len(obstacles) :
            i < j => ~ NormLess(obstacles[i].x - obstacles[j].x,
                                obstacles[i].y - obstacles[j].y, 2 * Unit)

\* A reset generated one obstacle of each kind, one of them at the centre
\* that lies 1.47 above the origin.
C8_Witness ==
    /\ last.op = "reset"
    /\ Len(obstacles) = 4
    /\ \E i \in 1..4 : obstacles[i].x = 0 /\ obstacles[i].y = 14700

\* Part of the shape lies beyond the bound M when its centre is at p.
beyond(p, M, h) == p - h < - M \/ p + h > M

\* The shape touches the bound M or part of it lies beyond.
reaches(p, M, h) == p - h <= - M \/ p + h >= M

C11_PredictionIsPure ==
    [][/\ (last'.op = "predict_obstacles" /\ forecast'.called /\ forecast'.age = 0)
            => UNCHANGED <<obstacles, state, prev_state, target, timestep,
                           target_reached>>
       /\ (forecast.called /\ forecast'.called /\ forecast'.age = forecast.age + 1)
            => forecast'.result = forecast.result]_vars

\* A step after a prediction moved a live obstacle away from entry 0.
C11_Witness ==
    /\ forecast.called
    /\ n_obstacles(cfg) > 0
    /\ forecast.age = 1
    /\ last.op = "step"
    /\ \E i \in 1..Len(obstacles) : obstacles[i].x # forecast.result[0][i].x

----------------------------------------------------------------------------
(* The scenario of the pushed point mass, checked under SpecScenario.      *)

\* C12: until a step returns done, every step brings x strictly closer to
\* 3; a step returns done before step 100; and every done returned before
\* step 100 comes with target_reached = True and a distance to the target
\* of at most 0.2.
C12_PushedToTarget ==
    [][/\ (state # None /\ timestep' = timestep + 1 /\ ~ terminated)
            => Abs(state'[1] - 3 * Unit) < Abs(state[1] - 3 * Unit)
       /\ (timestep' = timestep + 1 /\ timestep' < cfg.max_steps /\ last'.done)
            => /\ last'.target_reached = "True"
               /\ NormLeq(state'[1] - target[1], state'[3] - target[2], Unit \div 5)
       /\ (timestep' = cfg.max_steps - 1) => terminated']_vars

\* The first done of an episode: success at x = 3.025 in the eleventh step.
C12_Witness ==
    /\ stepped
    /\ cfg.max_steps = ScenarioMaxSteps
    /\ last.done
    /\ last.target_reached = "True"
    /\ timestep = 11
    /\ prev_state[1] = 25000
    /\ state[1] = 30250

----------------------------------------------------------------------------
(* Properties of reset with fixed values, checked under SpecFixed.         *)

\* C13: after every reset the initial position is farther than epsilon
\* from the target, in random-target and in fixed-target mode.
C13_StartAwayFromTarget ==
    last.op = "reset" =>
      ~ NormLeq(get_coordinates(state)[1] - target[1],
                get_coordinates(state)[2] - target[2], cfg.epsilon)

\* C14: after every reset of the quadrotor the target lies outside every
\* static box enlarged by 0.2 and farther than r + 0.2 from the centre of
\* every static circle, whether the target was sampled or fixed.
C14_TargetClearOfStatic ==
    (last.op = "reset" /\ cfg.env = "Quad2D") =>
      \A i \in 1..Len(obstacles) :
          ~ is_moving(cfg, i) =>
              /\ is_box(obstacles[i]) => ~ in_box(target, obstacles[i], Unit \div 5)
              /\ is_circle(obstacles[i]) => ~ in_circle(target, obstacles[i], Unit \div 5)

\* C16: the reward of a step is minus the distance from the new position
\* to the target for the point mass and minus its square for the
\* quadrotor, plus 1000 exactly if bonus_reward is enabled and the distance
\* is at most epsilon, whatever reset_target_reached is.
C16_RewardFromNewPosition ==
    stepped =>
      LET dx == state[1] - target[1]
          dy == state[3] - target[2]
          base == IF cfg.env = "PointMass"
                    THEN - Norm(dx, dy) ELSE - Square(Norm(dx, dy))
          bonus == IF cfg.bonus_reward /\ NormLeq(dx, dy, cfg.epsilon)
                     THEN 1000 * Unit ELSE 0
      IN  last.reward = base + bonus

\* A step that ends within epsilon of the target earns the bonus although
\* reaching the target does not end the episode.
C16_Witness ==
    /\ stepped
    /\ cfg.bonus_reward
    /\ ~ cfg.reset_target_reached
    /\ ~ last.done
    /\ last.reward > 0

----------------------------------------------------------------------------
(* Termination causes, checked under Spec.                                 *)

\* x is within 1e-4 of the bound M or of - M.
near_bound(x, M) == x <= - M + Unit \div 10000 \/ x >= M - Unit \div 10000

\* A clamped component of the state is within 1e-4 of its bound.
some_component_near_bound ==
    \/ near_bound(state[1], MAX_X(cfg.env))
    \/ near_bound(state[2], MAX_VEL_X(cfg.env))
    \/ near_bound(state[3], MAX_Y(cfg.env))
    \/ near_bound(state[4], MAX_VEL_Y(cfg.env))
    \/ (cfg.env = "Quad2D" /\ near_bound(state[6], Q_MAX_VEL_ANG))

\* A position of the body is within 1e-4 of its bound.
some_position_near_bound ==
    \/ near_bound(state[1], MAX_X(cfg.env))
    \/ near_bound(state[3], MAX_Y(cfg.env))

\* The step that just returned had a cause of termination other than the
\* bounds: the target, an obstacle or the horizon.
other_cause ==
    \/ cfg.reset_target_reached /\ target_within_epsilon(cfg, state, target)
    \/ collides(cfg, state, obstacles)
    \/ timestep = cfg.max_steps

\* C17 as stated: with reset_out_of_bounds enabled a step returns done
\* whenever a clamped component ends within 1e-4 of its bound, in every
\* mode; with it disabled a step at a bound returns done only for another
\* cause.
C17_DoneAtAnyBound ==
    stepped =>
      /\ (cfg.reset_out_of_bounds /\ some_component_near_bound) => last.done
      /\ (~ cfg.reset_out_of_bounds /\ last.done) => other_cause

\* C17 as amended: as stated, except that a quadrotor in test mode returns
\* done for the positions x and y only, not for the velocities.
C17_DoneAtCheckedBound ==
    stepped =>
      /\ (cfg.reset_out_of_bounds /\ ~ cfg.test /\ some_component_near_bound)
           => last.done
      /\ (cfg.reset_out_of_bounds /\ cfg.test /\ some_position_near_bound)
           => last.done
      /\ (cfg.reset_out_of_bounds /\ cfg.test /\ last.done)
           => (some_position_near_bound \/ other_cause)
      /\ (~ cfg.reset_out_of_bounds /\ last.done) => other_cause

\* A step outside test mode returned done for a velocity at its bound alone.
C17_Witness ==
    /\ stepped
    /\ cfg.reset_out_of_bounds
    /\ ~ cfg.test
    /\ ~ some_position_near_bound
    /\ some_component_near_bound
    /\ ~ other_cause
    /\ last.done

\* The body is inside or on the border of obstacle o.
body_in(o) ==
    IF is_box(o)
      THEN /\ 2 * Abs(state[1] - o.x) <= o.d
           /\ 2 * Abs(state[3] - o.y) <= o.d
      ELSE NormLeq(state[1] - o.x, state[3] - o.y, o.r)

body_in_obstacle == \E i \in 1..Len(obstacles) : body_in(obstacles[i])

target_fired ==
    cfg.reset_target_reached /\ target_within_epsilon(cfg, state, target)

bounds_fired ==
    /\ cfg.reset_out_of_bounds
    /\ IF cfg.test THEN some_position_near_bound ELSE some_component_near_bound

\* C18: a quadrotor step that leaves the body inside or on an obstacle,
\* with neither the target nor the bounds ending the episode first, returns
\* done and sets target_reached to -1, whatever the two modes are; if the
\* bounds end the episode target_reached keeps its value; and
\* target_reached becomes -1 only in a step that leaves the body in an
\* obstacle.
C18_CollisionTerminates ==
    [][(step_taken /\ cfg.env = "Quad2D") =>
         /\ (body_in_obstacle /\ ~ target_fired /\ ~ bounds_fired)'
              => (last'.done /\ target_reached' = "-1"
                  /\ last'.target_reached = "-1")
         /\ (bounds_fired /\ ~ target_fired)'
              => (last'.done /\ target_reached' = target_reached)
         /\ (target_reached' = "-1" /\ target_reached # "-1")
              => body_in_obstacle']_vars

\* A collision ended a step with both optional termination modes disabled.
C18_Witness ==
    /\ stepped
    /\ ~ cfg.reset_target_reached
    /\ ~ cfg.reset_out_of_bounds
    /\ timestep < cfg.max_steps
    /\ body_in_obstacle
    /\ last.done
    /\ target_reached = "-1"

\* C19: after any sequence of steps, terminated or not, a reset that returns
\* leaves timestep = 0 and target_reached = False, puts a freshly generated
\* layout in place of the obstacle list when the obstacle count is nonzero,
\* and returns the observation of the new initial state; the step that
\* follows is accepted, whatever its action.
C19_ResetStartsEpisode ==
    [][/\ last'.op = "reset" =>
            /\ timestep' = 0
            /\ target_reached' = "False"
            /\ (cfg.env = "Quad2D" /\ n_obstacles(cfg) > 0)
                  => obstacles' \in generate_obstacles(cfg, Draws)
            /\ state' # None
            /\ last'.ob = get_ob(cfg, state', target')
       /\ (last.op = "reset" /\ last'.op = "step") =>
            /\ "raised" \notin DOMAIN last'
            /\ "done" \in DOMAIN last'
            /\ timestep' = 1]_vars

\* A reset that follows steps of an earlier episode (prev_state is what the
\* last of them started from), in a quadrotor environment with obstacles.
C19_Witness ==
    /\ last.op = "reset"
    /\ prev_state # None
    /\ n_obstacles(cfg) > 0
    /\ timestep = 0 /\ target_reached = "False"
    /\ last.ob = get_ob(cfg, state, target)

\* C20: no step call changes the target; the target changes only in a reset
\* of an environment constructed without a target; and an environment
\* constructed with a target holds exactly that target after construction
\* and after any sequence of reset and step calls.
C20_TargetChangedOnlyByReset ==
    /\ [](cfg.target # None => target = cfg.target)
    /\ [][(last'.op = "step" => target' = target)
           /\ (target' # target => (last'.op = "reset" /\ cfg.target = None))]_vars

\* A fixed-target environment after a reset and a step that ended the
\* episode: the target is still the constructor's.
C20_Witness ==
    /\ cfg.target # None
    /\ stepped /\ timestep = 1
    /\ prev_state = cfg.initial_state
    /\ terminated
    /\ target = cfg.target

\* The step that is being taken is the first of its episode to return done,
\* or returns not done, and nothing but the horizon can have ended it.
horizon_only ==
    /\ step_taken
    /\ ~ terminated
    /\ ~ target_fired' /\ ~ bounds_fired' /\ ~ body_in_obstacle'

\* C21 as stated: the counter is incremented before termination is
\* evaluated, so with no other cause of termination the first step to
\* return done is the one that leaves the counter at max_steps - 1.
C21_DoneWhenCounterIsBudgetLessOne ==
    [][horizon_only => (last'.done <=> timestep' = cfg.max_steps - 1)]_vars

\* C21: termination is evaluated before the counter is incremented, so with
\* no other cause of termination the first step to return done is the one
\* that starts with the counter at max_steps - 1 and leaves it at max_steps:
\* the max_steps-th step call after reset.
C21_DoneWhenCounterIsBudget ==
    [][horizon_only => (last'.done <=> (timestep = cfg.max_steps - 1
                                        /\ timestep' = cfg.max_steps))]_vars

\* The second step of an episode with max_steps = 2 returned done, with
\* both termination modes off and no obstacle.
C21_Witness ==
    /\ stepped /\ last.done
    /\ cfg.max_steps = 2 /\ timestep = 2
    /\ ~ cfg.reset_target_reached /\ ~ cfg.reset_out_of_bounds
    /\ n_obstacles(cfg) = 0

\* The position of st is more than epsilon away from tgt.
separated(c, st, tgt) ==
    ~ NormLeq(st[1] - tgt[1], st[3] - tgt[2], c.epsilon)

\* The position of st is more than 1.0 outside obstacle o.
clears(st, o) ==
    IF is_box(o)
      THEN \/ 2 * Abs(st[1] - o.x) > o.d + 2 * Unit
           \/ 2 * Abs(st[3] - o.y) > o.d + 2 * Unit
      ELSE ~ NormLeq(st[1] - o.x, st[3] - o.y, o.r + Unit)

\* A reset of a quadrotor with a random target and test mode off.
reset_outside_test ==
    /\ last'.op = "reset"
    /\ cfg.env = "Quad2D" /\ cfg.target = None /\ ~ cfg.test

inside_domain(o) ==
    IF is_box(o)
      THEN /\ 2 * Abs(o.x) <= 2 * Q_MAX_X - o.d
           /\ 2 * Abs(o.y) <= 2 * Q_MAX_Y - o.d
      ELSE /\ Abs(o.x) <= Q_MAX_X - o.r
           /\ Abs(o.y) <= Q_MAX_Y - o.r

\* C23: in every state of the quadrotor environment, right after the
\* obstacles were generated and after any number of steps, every obstacle
\* lies wholly inside the domain: a box of side d has |x| <= MAX_X - d/2
\* and |y| <= MAX_Y - d/2, a circle of radius r has |x| <= MAX_X - r and
\* |y| <= MAX_Y - r.
C23_ObstaclesInsideDomain ==
    cfg.env = "Quad2D" =>
      \A i \in 1..Len(obstacles) : inside_domain(obstacles[i])

\* One step with action a takes the point mass from st to s_next, and
\* neither velocity had to be clamped.
steps_unclamped(c, st, a, s_next) ==
    /\ s_next = next_state(c, st, a)
    /\ integrate(c, st, a)[2] = s_next[2]
    /\ integrate(c, st, a)[4] = s_next[4]

\* C24: when the point mass is in state s and s_next is what one step with
\* an action a inside the action bounds makes of s, no velocity clamped,
\* inverse_dynamics(s_next) returns a; and inverse_dynamics changes no
\* field of the environment.
C24_InverseDynamicsRoundTrip ==
    /\ [](last.op = "inverse_dynamics" =>
            \A a \in InverseActions :
                (clamped(cfg, a) = a /\ steps_unclamped(cfg, state, a, last.s_next))
                  => last.result = a)
    /\ [][last'.op = "inverse_dynamics" =>
            UNCHANGED <<cfg, state, prev_state, target, timestep,
                        target_reached, obstacles>>]_vars

\* inverse_dynamics was called after a step, from a moving state, with the
\* successor of an action that is nonzero in both components and inside
\* the bounds, and no velocity was clamped.
C24_Witness ==
    /\ last.op = "inverse_dynamics"
    /\ prev_state # None /\ state[2] # 0
    /\ steps_unclamped(cfg, state, <<12340, -30000>>, last.s_next)
    /\ last.result = <<12340, -30000>>

\* Some candidate of the loop the call is in passes its validity check.
can_pass ==
    IF loop.at = "obstacles"
      THEN accepted(cfg, obstacles, LoopDraws) # {}
    ELSE IF loop.at = "state"
      THEN sample_state(cfg, obstacles, target, LoopDraws) # {}
    ELSE \E t \in sample_target(cfg, LoopDraws) :
             check_target(cfg, state, obstacles, t)

\* What the iteration that moved the call on has drawn passes the check.
passed ==
    IF loop.at = "obstacles"
      THEN /\ Len(obstacles') = Len(obstacles) + 1
           /\ \A i \in 1..Len(obstacles) :
                 ~ NormLess(obstacles[i].x - obstacles'[Len(obstacles')].x,
                            obstacles[i].y - obstacles'[Len(obstacles')].y,
                            2 * Unit)
    ELSE IF loop.at = "state"
      THEN /\ check_initial_pos(cfg, state', obstacles, target)
           /\ cfg.env = "Quad2D" => check_initial_vel(state')
    ELSE check_target(cfg, state, obstacles, target')

Positions ==
    [op : {"init", "reset"}, at : {"obstacles", "state", "target"}]
      \X (0..MaxLoopObstacles)

\* C25: no rejection loop of __init__ or reset has an attempt cap.  A loop
\* is left only by an iteration whose candidate passes the check; while no
\* candidate passes, the call stays in the loop and reports nothing; and
\* when some candidate passes, the loop is left eventually, given that no
\* draw is denied for ever.
C25_LoopsEndOnlyByValidDraw ==
    /\ [][(loop.at # "idle" /\ position' # position) => passed]_vars
    /\ [][(loop.at # "idle" /\ ~ can_pass) =>
            (position' = position /\ last' = last)]_vars
    /\ \A p \in Positions :
          (position = p /\ can_pass) ~> (position # p)

\* reset is in the loop that places the second obstacle and none of the
\* centres it can draw is 2.0 away from the first.
C25_Witness ==
    /\ loop.at = "obstacles" /\ loop.op = "reset"
    /\ Len(obstacles) = 1
    /\ ~ can_pass

====
